---- MODULE Spec2Model ----
(***************************************************************************)
(* Model of pdf_table_extractor/app.py: the row expander                   *)
(* (split_merged_rows), the cell translator (translate_text,               *)
(* translate_df), the sheet serializer (format_excel and the processing    *)
(* loop) and the Streamlit upload / confirmation script.                   *)
(*                                                                         *)
(* A Python str is a sequence of one-character strings.  A DataFrame is a  *)
(* record [columns |-> sequence of labels, rows |-> sequence of rows],     *)
(* each row a sequence of cells.                                           *)
(***************************************************************************)
EXTENDS Naturals, Sequences, FiniteSets, TLC

VARIABLES
    df,          \* SpecExpand: the DataFrame handed to split_merged_rows
    new_df,      \* SpecExpand: the DataFrame returned by split_merged_rows
    translated,  \* SpecExpand: the DataFrame returned by translate_df
    stage,       \* SpecExpand: "raw" | "split" | "translated"
    text,        \* SpecTranslate: the value handed to translate_text
    target_lang, \* SpecTranslate: the target language code
    call,        \* SpecTranslate: the record of the call, done once it returned
    \* SpecUI: the widgets as the browser holds them after the last rerun
    new_file,                \* st.file_uploader: the file's name, NoFile if none
    enable_translation,      \* st.checkbox
    selected_lang_name,      \* st.selectbox
    buttons,                 \* the buttons the last rerun rendered
    \* SpecUI: st.session_state
    last_filename,
    confirmed,
    processing_complete,
    confirmed_lang_code,
    run_without_translation,
    \* SpecUI: what the last rerun did
    event,                   \* the user's action that caused it
    invoked,                 \* whether it entered the PDF processing block
    outcome,                 \* "none" | "done" | "failed": how the block ended
    used_lang,               \* the language handed to translate_df, "" if none
    \* SpecUI: history of the user's explicit signals
    given,                   \* the signals clicked since the last completed
                             \* processing, as of the last rerun's gate
    confirm_selection,       \* the selectbox value at the last Confirm click
    confirm_since_upload,    \* whether Confirm was clicked after the last
                             \* document was supplied
    \* SpecPipeline: the PDF processing block (it reads enable_translation
    \* and confirmed_lang_code)
    tables,      \* what camelot.read_pdf returned: records [page, df]
    table_i,     \* the loop's position in tables, from 1
    sheets,      \* the workbook: the sheets of writer.book, in order
    all_dfs,     \* the sheet names collected for post_formatting
    pstage,      \* "start" | "loop" | "done" | "failed"
    \* SpecPipeline, SpecTranslateDf: the calls of translate_text made so
    \* far, in order: [table, row, col, calls, failed, ret]
    tlog

exVars == <<df, new_df, translated, stage>>
trVars == <<text, target_lang, call>>
widgetVars == <<new_file, enable_translation, selected_lang_name, buttons>>
sessionVars == <<last_filename, confirmed, processing_complete,
                 confirmed_lang_code, run_without_translation>>
uiVars == <<widgetVars, sessionVars, event, invoked, outcome, used_lang,
            given, confirm_selection, confirm_since_upload>>
plVars == <<tables, table_i, sheets, all_dfs, pstage>>
vars == <<exVars, trVars, uiVars, plVars, tlog>>

\* the values of the variables a specification does not use
NoDf == [columns |-> <<>>, rows |-> <<>>]

---------------------------------------------------------------------------
(* Bounds of the enumerated inputs.                                        *)
MaxRows == 2
MaxCols == 2
MaxChars == 2
MaxTextLen == 3
MaxTables == 2
\* the number of decimal digits of the largest page number enumerated
HugePageDigits == 19

---------------------------------------------------------------------------
(* Python str helpers.                                                     *)
NL == "\n"
SP == " "
Chars == {"a", NL, SP}
Whitespace == {NL, SP}

RECURSIVE StrsOfLen(_)
StrsOfLen(n) ==
    IF n = 0 THEN {<<>>}
    ELSE LET shorter == StrsOfLen(n - 1)
         IN  {<<c>> \o s : c \in Chars, s \in shorter}

\* '\n' in s
HasNL(s) == \E k \in 1..Len(s) : s[k] = NL

\* s.split('\n')
RECURSIVE Split(_)
Split(s) ==
    IF ~HasNL(s) THEN <<s>>
    ELSE LET k == CHOOSE k \in 1..Len(s) :
                      /\ s[k] = NL
                      /\ \A m \in 1..(k - 1) : s[m] # NL
         IN  <<SubSeq(s, 1, k - 1)>> \o Split(SubSeq(s, k + 1, Len(s)))

\* s.strip()
RECURSIVE LStrip(_)
LStrip(s) ==
    IF s # <<>> /\ s[1] \in Whitespace THEN LStrip(Tail(s)) ELSE s

RECURSIVE RStrip(_)
RStrip(s) ==
    IF s # <<>> /\ s[Len(s)] \in Whitespace
    THEN RStrip(SubSeq(s, 1, Len(s) - 1)) ELSE s

Strip(s) == RStrip(LStrip(s))

\* max(len(p) for p in parts)
RECURSIVE MaxLenOf(_)
MaxLenOf(parts) ==
    IF parts = <<>> THEN 0
    ELSE LET m == MaxLenOf(Tail(parts))
         IN  IF Len(Head(parts)) > m THEN Len(Head(parts)) ELSE m

---------------------------------------------------------------------------
(* split_merged_rows                                                       *)

\* [p[i] for p in parts if i < len(p)]: a filter in place of the conditional
new_row_filtered(parts, i) ==
    LET RECURSIVE Keep(_)
        Keep(ps) == IF ps = <<>> THEN <<>>
                    ELSE (IF i < Len(Head(ps)) THEN <<Head(ps)[i + 1]>> ELSE <<>>)
                         \o Keep(Tail(ps))
    IN  Keep(parts)

\* [p[i] if i < len(p) else p[0] for p in parts]: repeats the first segment
new_row_repeating(parts, i) ==
    [j \in 1..Len(parts) |->
        IF i < Len(parts[j]) THEN parts[j][i + 1] ELSE parts[j][1]]

\* every segment is trimmed
new_row_stripping(parts, i) ==
    [j \in 1..Len(parts) |->
        IF i < Len(parts[j]) THEN Strip(parts[j][i + 1]) ELSE <<>>]

\* new_row = [p[i] if i < len(p) else '' for p in parts]   (i is 0-based)
new_row(parts, i) ==
    [j \in 1..Len(parts) |->
        IF i < Len(parts[j]) THEN parts[j][i + 1] ELSE <<>>]

\* a row without line breaks is dropped instead of appended
expand_row_drops_plain(row) ==
    IF \E j \in 1..Len(row) : HasNL(row[j])
    THEN LET parts == [j \in 1..Len(row) |-> Split(row[j])]
         IN  [i \in 1..MaxLenOf(parts) |-> new_row(parts, i - 1)]
    ELSE <<>>

\* the body of the loop over df.iterrows(): the rows appended for one row
expand_row(row) ==
    IF \E j \in 1..Len(row) : HasNL(row[j])
    THEN LET parts == [j \in 1..Len(row) |-> Split(row[j])]
             max_len == MaxLenOf(parts)
         IN  [i \in 1..max_len |-> new_row(parts, i - 1)]
    ELSE <<row>>

RECURSIVE new_rows(_)
new_rows(rows) ==
    IF rows = <<>> THEN <<>>
    ELSE expand_row(Head(rows)) \o new_rows(Tail(rows))

split_merged_rows(d) ==
    [columns |-> d.columns, rows |-> new_rows(d.rows)]

---------------------------------------------------------------------------
(* translate_text.  detect() and GoogleTranslator.translate() are external: *)
(* det is what detect(text) does on this call (a language code, or Raises) *)
(* and prov what the provider does if it is called (it raises, or returns  *)
(* the string value).                                                      *)
Raises == "raises"
Langs == {"en", "fr"}
ProviderResults == {<<"b">>, <<"b", NL, "b">>}
DetectOutcomes == Langs \cup {Raises}
ProviderOutcomes ==
    {[raises |-> TRUE, value |-> <<>>]}
        \cup {[raises |-> FALSE, value |-> r] : r \in ProviderResults}
Outcomes == [det : DetectOutcomes, prov : ProviderOutcomes]

\* the "if not text" test is missing: detect() is called on the empty string
translate_text_no_empty_check(value, target, o) ==
    LET t == Strip(value)
    IN  IF o.det = Raises
        THEN [ret |-> t, calls |-> <<"detect">>, raised |-> FALSE]
        ELSE IF o.det # target
             THEN IF o.prov.raises
                  THEN [ret |-> t, calls |-> <<"detect", "translate">>, raised |-> FALSE]
                  ELSE [ret |-> o.prov.value, calls |-> <<"detect", "translate">>, raised |-> FALSE]
             ELSE [ret |-> t, calls |-> <<"detect">>, raised |-> FALSE]

\* there is no try/except: what detect() or the provider raises leaves
\* translate_text
translate_text_no_except(value, target, o) ==
    LET t == Strip(value)
    IN  IF t = <<>>
        THEN [ret |-> t, calls |-> <<>>, raised |-> FALSE]
        ELSE IF o.det = Raises
             THEN [ret |-> t, calls |-> <<"detect">>, raised |-> TRUE]
             ELSE IF o.det # target
                  THEN IF o.prov.raises
                       THEN [ret |-> t, calls |-> <<"detect", "translate">>,
                             raised |-> TRUE]
                       ELSE [ret |-> o.prov.value,
                             calls |-> <<"detect", "translate">>, raised |-> FALSE]
                  ELSE [ret |-> t, calls |-> <<"detect">>, raised |-> FALSE]

\* ret is the value returned, calls the sequence of external calls made,
\* raised whether an exception leaves translate_text
translate_text(value, target, o) ==
    LET t == Strip(value)                  \* text = str(text).strip()
    IN  IF t = <<>>
        THEN [ret |-> t, calls |-> <<>>, raised |-> FALSE]   \* if not text: return text
        ELSE IF o.det = Raises
             THEN [ret |-> t, calls |-> <<"detect">>, raised |-> FALSE]      \* except: return text
             ELSE IF o.det # target
                  THEN IF o.prov.raises
                       THEN [ret |-> t, calls |-> <<"detect", "translate">>, raised |-> FALSE]
                       ELSE [ret |-> o.prov.value, calls |-> <<"detect", "translate">>, raised |-> FALSE]
                  ELSE [ret |-> t, calls |-> <<"detect">>, raised |-> FALSE] \* return text

\* df.applymap(lambda x: translate_text(x, target_lang)); env[i][j] is what
\* the external services do on the call made for the cell at row i, column j
translate_df(d, target, env) ==
    [columns |-> d.columns,
     rows |-> [i \in 1..Len(d.rows) |->
                 [j \in 1..Len(d.rows[i]) |->
                     translate_text(d.rows[i][j], target, env[i][j]).ret]]]

\* the cells are visited one row after the other, each from left to right
applymap_by_rows(nrows, ncols) ==
    [k \in 1..(nrows * ncols) |->
        <<((k - 1) \div ncols) + 1, ((k - 1) % ncols) + 1>>]

\* the order in which DataFrame.applymap hands the cells of a table of
\* nrows rows and ncols columns to the function: applymap applies it to one
\* column after the other, and inside a column from the top down
applymap_order(nrows, ncols) ==
    [k \in 1..(nrows * ncols) |->
        <<((k - 1) % nrows) + 1, ((k - 1) \div nrows) + 1>>]

\* whether an external call made for the cell failed inside translate_text
call_failed(r, o) ==
    \/ r.calls = <<"detect">> /\ o.det = Raises
    \/ r.calls = <<"detect", "translate">> /\ o.prov.raises

\* the record of one call of translate_text, for the cell at row i, column j
\* of table t
log_entry(t, i, j, value, target, o) ==
    LET r == translate_text(value, target, o)
    IN  [table |-> t, row |-> i, col |-> j, calls |-> r.calls,
         failed |-> call_failed(r, o), ret |-> r.ret]

\* the calls of translate_text that translate_df(d, target) makes, in order
translate_log(d, target, env, t) ==
    LET order == applymap_order(Len(d.rows), Len(d.columns))
    IN  [k \in 1..Len(order) |->
            LET i == order[k][1]
                j == order[k][2]
            IN  log_entry(t, i, j, d.rows[i][j], target, env[i][j])]

\* whether an exception leaves translate_df(d, target)
translate_df_raises(d, target, env) ==
    \E i \in 1..Len(d.rows) : \E j \in 1..Len(d.rows[i]) :
        translate_text(d.rows[i][j], target, env[i][j]).raised

---------------------------------------------------------------------------
(* The enumerated inputs.                                                  *)
Digit == <<"0", "1", "2", "3", "4", "5", "6", "7", "8", "9">>

\* str(n) for an int n >= 0
RECURSIVE IntToStr(_)
IntToStr(n) ==
    IF n < 10 THEN <<Digit[n + 1]>>
    ELSE IntToStr(n \div 10) \o <<Digit[(n % 10) + 1]>>

\* the sequences of n cells holding at most b characters in all
RECURSIVE FlatCells(_, _)
FlatCells(n, b) ==
    IF n = 0 THEN {<<>>}
    ELSE UNION {LET heads == StrsOfLen(k)
                    rests == FlatCells(n - 1, b - k)
                IN  {<<s>> \o rest : s \in heads, rest \in rests}
                : k \in 0..b}

\* a table as camelot hands it over, its labels stringified (line 124)
MkDf(r, c, flat) ==
    [columns |-> [j \in 1..c |-> IntToStr(j - 1)],
     rows |-> [i \in 1..r |-> [j \in 1..c |-> flat[(i - 1) * c + j]]]]

Grids ==
    UNION {{MkDf(r, c, flat) : flat \in FlatCells(r * c, MaxChars)}
           : r \in 1..MaxRows, c \in 1..MaxCols}

\* the row ["X", "A\nB"] of the specification's example
ExampleDf ==
    [columns |-> <<IntToStr(0), IntToStr(1)>>,
     rows |-> << <<(<<"X">>), (<<"A", NL, "B">>)>> >>]

Texts == UNION {StrsOfLen(k) : k \in 0..MaxTextLen}

---------------------------------------------------------------------------
(* SpecExpand: split_merged_rows, then translate_df, on one DataFrame.     *)
NoCall == [done |-> FALSE, det |-> "", prov |-> [raises |-> FALSE, value |-> <<>>],
           ret |-> <<>>, calls |-> <<>>]
UiIdle ==
    /\ new_file = "" /\ enable_translation = FALSE /\ selected_lang_name = ""
    /\ buttons = {} /\ last_filename = "" /\ confirmed = FALSE
    /\ processing_complete = FALSE /\ confirmed_lang_code = ""
    /\ run_without_translation = FALSE /\ event = "" /\ invoked = FALSE
    /\ outcome = "" /\ used_lang = "" /\ given = {} /\ confirm_selection = ""
    /\ confirm_since_upload = FALSE
PlIdle ==
    /\ tables = <<>> /\ table_i = 0 /\ sheets = <<>> /\ all_dfs = <<>>
    /\ pstage = "idle" /\ tlog = <<>>
ExIdle == df = NoDf /\ new_df = NoDf /\ translated = NoDf /\ stage = "idle"
TrIdle == text = <<>> /\ target_lang = "" /\ call = NoCall

InitExpand ==
    /\ df \in Grids \cup {ExampleDf}
    /\ new_df = NoDf
    /\ translated = NoDf
    /\ stage = "raw"
    /\ TrIdle
    /\ UiIdle
    /\ PlIdle

ApplySplit ==
    /\ stage = "raw"
    /\ new_df' = split_merged_rows(df)
    /\ stage' = "split"
    /\ UNCHANGED <<df, translated, trVars, uiVars, plVars, tlog>>

\* the services behave alike on every cell of one translate_df call here
ApplyTranslate ==
    /\ stage = "split"
    /\ \E t \in Langs, o \in Outcomes :
          translated' = translate_df(new_df, t,
                            [i \in 1..Len(new_df.rows) |->
                                [j \in 1..Len(new_df.rows[i]) |-> o]])
    /\ stage' = "translated"
    /\ UNCHANGED <<df, new_df, trVars, uiVars, plVars, tlog>>

NextExpand == ApplySplit \/ ApplyTranslate
SpecExpand == InitExpand /\ [][NextExpand]_vars

---------------------------------------------------------------------------
(* SpecTranslate: one call of translate_text.                              *)
InitTranslate ==
    /\ text \in Texts
    /\ target_lang \in Langs
    /\ call = NoCall
    /\ ExIdle
    /\ UiIdle
    /\ PlIdle

CallTranslateText ==
    /\ ~call.done
    /\ \E o \in Outcomes :
          LET r == translate_text(text, target_lang, o)
          IN  call' = [done |-> TRUE, det |-> o.det, prov |-> o.prov,
                       ret |-> r.ret, calls |-> r.calls]
    /\ UNCHANGED <<text, target_lang, exVars, uiVars, plVars, tlog>>

NextTranslate == CallTranslateText
SpecTranslate == InitTranslate /\ [][NextTranslate]_vars

---------------------------------------------------------------------------
(* SpecUI: the Streamlit script.  Every user action reruns the script from *)
(* the top with the widgets' values; one action is one user action and the *)
(* whole rerun it causes.  The processing block's own work is in           *)
(* SpecPipeline; here it either completes (ok) or raises.                  *)
NoFile == ""
FileNames == {"a.pdf", "b.pdf"}

\* three of the 22 entries of full_language_names, inverted
LangNames == {"English", "French", "German"}
lang_name_to_code ==
    [n \in LangNames |->
        CASE n = "English" -> "en" [] n = "French" -> "fr" [] n = "German" -> "de"]
DefaultLangName == "English"

\* new_file and new_file.name != st.session_state.last_filename
IsNewUpload(file, last) == file # NoFile /\ file # last

\* the confirmation flag is not consulted
GateIgnoresConfirmed(file, enable, conf, rwt) ==
    file # NoFile /\ (enable \/ (~enable /\ rwt))

\* the condition of the PDF processing block
Gate(file, enable, conf, rwt) ==
    file # NoFile /\ ((enable /\ conf) \/ (~enable /\ rwt))

\* One rerun: the uploader holds file, the checkbox box, the selectbox sel,
\* click is the button pressed ("" if none), ok whether the processing block,
\* if entered, runs to its end.
Rerun(ev, file, box, sel, click, ok) ==
    LET isNew == IsNewUpload(file, last_filename)
        conf1 == IF isNew THEN FALSE ELSE confirmed
        done1 == IF isNew THEN FALSE ELSE processing_complete
        rwt1 == IF isNew THEN FALSE ELSE run_without_translation
        enable == file # NoFile /\ box
        confirmClick == enable /\ click = "confirm"
        proceedShown == file # NoFile /\ ~enable /\ ~rwt1
        proceedClick == proceedShown /\ click = "proceed"
        conf2 == confirmClick \/ conf1
        done2 == IF confirmClick THEN FALSE ELSE done1
        code2 == IF confirmClick THEN lang_name_to_code[sel]
                 ELSE confirmed_lang_code
        rwt2 == proceedClick \/ rwt1
        gate == Gate(file, enable, conf2, rwt2)
        pending == IF outcome = "done" THEN {} ELSE given
    IN  /\ new_file' = file
        /\ enable_translation' = enable
        /\ selected_lang_name' = IF enable THEN sel ELSE DefaultLangName
        /\ buttons' = (IF enable THEN {"confirm"} ELSE {})
                          \cup (IF proceedShown THEN {"proceed"} ELSE {})
                          \cup (IF gate /\ ok THEN {"download"} ELSE {})
        /\ last_filename' = IF isNew THEN file ELSE last_filename
        /\ confirmed' = IF gate /\ ok THEN FALSE ELSE conf2
        /\ processing_complete' = IF gate /\ ok THEN TRUE ELSE done2
        /\ run_without_translation' = IF gate /\ ok THEN FALSE ELSE rwt2
        /\ confirmed_lang_code' = code2
        /\ event' = ev
        /\ invoked' = gate
        /\ outcome' = IF ~gate THEN "none" ELSE IF ok THEN "done" ELSE "failed"
        /\ used_lang' = IF gate /\ enable THEN code2 ELSE ""
        /\ given' = pending \cup (IF click = "" THEN {} ELSE {click} \ {"download"})
        /\ confirm_selection' = IF click = "confirm" THEN sel
                                ELSE confirm_selection
        /\ confirm_since_upload' = IF click = "confirm" THEN TRUE
                                   ELSE IF ev = "upload" THEN FALSE
                                   ELSE confirm_since_upload
        /\ UNCHANGED <<exVars, trVars, plVars, tlog>>

InitUI ==
    /\ new_file = NoFile
    /\ enable_translation = FALSE
    /\ selected_lang_name = DefaultLangName
    /\ buttons = {}
    /\ last_filename = NoFile
    /\ confirmed = FALSE
    /\ processing_complete = FALSE
    /\ confirmed_lang_code = "en"
    /\ run_without_translation = FALSE
    /\ event = "start"
    /\ invoked = FALSE
    /\ outcome = "none"
    /\ used_lang = ""
    /\ given = {}
    /\ confirm_selection = DefaultLangName
    /\ confirm_since_upload = FALSE
    /\ ExIdle
    /\ TrIdle
    /\ PlIdle

\* the user supplies a document through the uploader
Upload ==
    /\ FileNames # {}
    /\ \E n \in FileNames, ok \in BOOLEAN :
          Rerun("upload", n, enable_translation, selected_lang_name, "", ok)

\* the user removes the uploaded file
RemoveFile ==
    /\ new_file # NoFile
    /\ \E ok \in BOOLEAN :
          Rerun("remove", NoFile, enable_translation, selected_lang_name, "", ok)

ToggleTranslation ==
    /\ new_file # NoFile
    /\ \E ok \in BOOLEAN :
          Rerun("toggle", new_file, ~enable_translation, selected_lang_name, "", ok)

SelectLanguage ==
    /\ new_file # NoFile /\ enable_translation
    /\ \E l \in LangNames \ {selected_lang_name}, ok \in BOOLEAN :
          Rerun("select", new_file, enable_translation, l, "", ok)

ClickConfirm ==
    /\ "confirm" \in buttons
    /\ \E ok \in BOOLEAN :
          Rerun("confirm", new_file, enable_translation, selected_lang_name,
                "confirm", ok)

ClickProceed ==
    /\ "proceed" \in buttons
    /\ \E ok \in BOOLEAN :
          Rerun("proceed", new_file, enable_translation, selected_lang_name,
                "proceed", ok)

ClickDownload ==
    /\ "download" \in buttons
    /\ \E ok \in BOOLEAN :
          Rerun("download", new_file, enable_translation, selected_lang_name,
                "download", ok)

NextUI ==
    \/ Upload
    \/ RemoveFile
    \/ ToggleTranslation
    \/ SelectLanguage
    \/ ClickConfirm
    \/ ClickProceed
    \/ ClickDownload
SpecUI == InitUI /\ [][NextUI]_vars

---------------------------------------------------------------------------
(* SpecPipeline: the PDF processing block, one action per step.            *)
(* A page number is a Python int, which has no largest value: it is held   *)
(* as the sequence of its decimal digits.  A raw table's column labels are *)
(* camelot's 0, 1, ...  SpecPipeline runs the block on the tables of a     *)
(* PDF; SpecPipelineAnyPage also on a table whose page number is any int,  *)
(* however large, so that sheet_name[:31] cuts.                            *)
SheetNameMax == 31
ColumnWidth == 35

\* str(page)
PageStr(page) == [k \in 1..Len(page) |-> Digit[page[k] + 1]]

\* the pages of the uploaded PDF that hold tables: 1 and 12
Pages == {<<1>>, <<1, 2>>}
\* 10^(n-1), for the two largest numbers of digits
HugePages ==
    {[k \in 1..n |-> IF k = 1 THEN 1 ELSE 0]
        : n \in (HugePageDigits - 1)..HugePageDigits}

RawDf(rows, ncols) == [columns |-> [j \in 1..ncols |-> j - 1], rows |-> rows]
EmptyRawDf == RawDf(<<>>, 2)
OneCellRawDf == RawDf(<< <<(<<SP, "a">>)>> >>, 1)
\* the 2x2 table of the specification's end-to-end example
ExampleRawDf ==
    RawDf(<< <<(<<"X">>), (<<"A", NL, "B">>)>>, <<(<<"C">>), (<<"D">>)>> >>, 2)
RawDfs == {EmptyRawDf, OneCellRawDf, ExampleRawDf}

RECURSIVE SeqsUpTo(_, _)
SeqsUpTo(S, n) ==
    IF n = 0 THEN {<<>>}
    ELSE SeqsUpTo(S, n - 1)
             \cup {Append(q, x) : q \in {q \in SeqsUpTo(S, n - 1) : Len(q) = n - 1},
                                  x \in S}

TableLists == SeqsUpTo([page : Pages, df : RawDfs], MaxTables)

\* one table with rows, on a huge page, after empty tables
HugeTableLists ==
    {Append(q, [page |-> p, df |-> d])
        : q \in SeqsUpTo({[page |-> <<1>>, df |-> EmptyRawDf]}, MaxTables - 1),
          p \in HugePages, d \in RawDfs \ {EmptyRawDf}}

\* no table counts as empty
IsEmptyNever(d) == FALSE

\* df.empty
IsEmpty(d) == Len(d.rows) = 0 \/ Len(d.columns) = 0

\* df.columns = [str(col).strip() for col in df.columns]
strip_columns(d) ==
    [columns |-> [j \in 1..Len(d.columns) |-> Strip(IntToStr(d.columns[j]))],
     rows |-> d.rows]

\* f"Page_{table.page}_Table_{i+1}"; n is the table's 1-based position
sheet_name(page, n) ==
    <<"P", "a", "g", "e", "_">> \o PageStr(page)
        \o <<"_", "T", "a", "b", "l", "e", "_">> \o IntToStr(n)

\* s[:n]
Take(s, n) == SubSeq(s, 1, IF Len(s) < n THEN Len(s) ELSE n)

\* the labels are not written
excel_rows_no_header(d) == d.rows

\* the rows df.to_excel(index=False) writes: the labels, then the data
excel_rows(d) == <<d.columns>> \o d.rows

\* writing rows onto a sheet that holds old: the cells written replace those
\* at their positions, the others stay
overlay(old, rows) ==
    LET nr == IF Len(old) > Len(rows) THEN Len(old) ELSE Len(rows)
        width(g) == IF g = <<>> THEN 0 ELSE Len(g[1])
        nc == IF width(old) > width(rows) THEN width(old) ELSE width(rows)
    IN  [r \in 1..nr |-> [c \in 1..nc |->
            IF r <= Len(rows) /\ c <= width(rows) THEN rows[r][c]
            ELSE IF r <= Len(old) /\ c <= width(old) THEN old[r][c]
            ELSE <<>>]]

NewSheet(name, rows) ==
    [name |-> name, rows |-> rows,
     wrap |-> [r \in 1..Len(rows) |-> [c \in 1..Len(rows[r]) |-> FALSE]],
     width |-> [c \in 1..Len(rows[1]) |-> 0]]

\* the name is written as given
format_excel_untruncated(book, name, d) ==
    IF \E k \in 1..Len(book) : book[k].name = name
    THEN [k \in 1..Len(book) |->
             IF book[k].name = name
             THEN NewSheet(name, overlay(book[k].rows, excel_rows(d)))
             ELSE book[k]]
    ELSE Append(book, NewSheet(name, excel_rows(d)))

\* df.to_excel(writer, sheet_name=sheet_name[:31], index=False): a writer
\* opened for writing puts a table whose sheet name it already holds onto
\* that sheet, and any other on a new sheet after the existing ones
format_excel(book, name, d) ==
    LET n == Take(name, SheetNameMax)
    IN  IF \E k \in 1..Len(book) : book[k].name = n
        THEN [k \in 1..Len(book) |->
                 IF book[k].name = n
                 THEN NewSheet(n, overlay(book[k].rows, excel_rows(d)))
                 ELSE book[k]]
        ELSE Append(book, NewSheet(n, excel_rows(d)))

\* the width is added to the width the column has
post_formatting_widening(book, sheet_names) ==
    [k \in 1..Len(book) |->
        IF \E m \in 1..Len(sheet_names) : sheet_names[m] = book[k].name
        THEN [book[k] EXCEPT
                 !.wrap = [r \in 1..Len(book[k].rows) |->
                              [c \in 1..Len(book[k].rows[r]) |-> TRUE]],
                 !.width = [c \in 1..Len(book[k].rows[1]) |->
                               book[k].width[c] + ColumnWidth]]
        ELSE book[k]]

\* post_formatting: wrap-text on every cell and the fixed width on every
\* column of each sheet named
post_formatting(book, sheet_names) ==
    [k \in 1..Len(book) |->
        IF \E m \in 1..Len(sheet_names) : sheet_names[m] = book[k].name
        THEN [book[k] EXCEPT
                 !.wrap = [r \in 1..Len(book[k].rows) |->
                              [c \in 1..Len(book[k].rows[r]) |-> TRUE]],
                 !.width = [c \in 1..Len(book[k].rows[1]) |-> ColumnWidth]]
        ELSE book[k]]

InitPipelineAny(first) ==
    /\ tables = <<>>
    /\ table_i = 0
    /\ sheets = <<>>
    /\ all_dfs = <<>>
    /\ pstage = first
    /\ tlog = <<>>
    /\ ExIdle
    /\ TrIdle
    /\ new_file = "a.pdf" /\ selected_lang_name = "" /\ buttons = {}
    /\ last_filename = "a.pdf" /\ confirmed = FALSE
    /\ processing_complete = FALSE /\ run_without_translation = FALSE
    /\ event = "" /\ invoked = TRUE /\ outcome = "" /\ used_lang = ""
    /\ given = {} /\ confirm_selection = ""
    /\ confirm_since_upload = FALSE
    /\ enable_translation \in BOOLEAN
    /\ confirmed_lang_code \in Langs

InitPipeline == InitPipelineAny("start")
InitPipelineAnyPage == InitPipelineAny("start_any_page")

\* tables = camelot.read_pdf(...): it raises, or returns the tables
ReadPdf ==
    /\ pstage \in {"start", "start_any_page"}
    /\ \/ /\ pstage' = "failed"
          /\ UNCHANGED <<tables, table_i>>
       \/ /\ tables' \in IF pstage = "start" THEN TableLists
                         ELSE TableLists \cup HugeTableLists
          /\ table_i' = 1
          /\ pstage' = "loop"
    /\ UNCHANGED <<sheets, all_dfs, tlog, exVars, trVars, uiVars>>

\* if df.empty: continue
SkipEmptyTable ==
    /\ pstage = "loop"
    /\ table_i <= Len(tables)
    /\ IsEmpty(tables[table_i].df)
    /\ table_i' = table_i + 1
    /\ UNCHANGED <<tables, sheets, all_dfs, pstage, tlog, exVars, trVars, uiVars>>

\* the translation is applied to every table, whatever the checkbox says
translate_if_enabled_always(enable, d, target, env, t) ==
    [df |-> translate_df(d, target, env),
     log |-> translate_log(d, target, env, t),
     raised |-> translate_df_raises(d, target, env)]

\* if enable_translation: df = translate_df(df, confirmed_lang_code); with
\* the calls it makes and whether an exception leaves it
translate_if_enabled(enable, d, target, env, t) ==
    IF enable
    THEN [df |-> translate_df(d, target, env),
          log |-> translate_log(d, target, env, t),
          raised |-> translate_df_raises(d, target, env)]
    ELSE [df |-> d, log |-> <<>>, raised |-> FALSE]

\* one pass of the loop body on a table that is not empty; the services
\* behave alike on every cell of the table. An exception that leaves the
\* body ends the run before anything is offered.
ProcessTable ==
    /\ pstage = "loop"
    /\ table_i <= Len(tables)
    /\ ~IsEmpty(tables[table_i].df)
    /\ \E o \in Outcomes :
          LET d1 == split_merged_rows(strip_columns(tables[table_i].df))
              tr == translate_if_enabled(enable_translation, d1,
                        confirmed_lang_code,
                        [r \in 1..Len(d1.rows) |->
                            [c \in 1..Len(d1.rows[r]) |-> o]], table_i)
              name == sheet_name(tables[table_i].page, table_i)
          IN  /\ tlog' = tlog \o tr.log
              /\ IF tr.raised
                 THEN /\ pstage' = "failed"
                      /\ UNCHANGED <<sheets, all_dfs, table_i>>
                 ELSE /\ sheets' = format_excel(sheets, name, tr.df)
                      /\ all_dfs' = Append(all_dfs, Take(name, SheetNameMax))
                      /\ table_i' = table_i + 1
                      /\ UNCHANGED pstage
    /\ UNCHANGED <<tables, exVars, trVars, uiVars>>

\* writer.close(), which raises on a workbook without sheets, then
\* post_formatting and the download button
CloseAndFormat ==
    /\ pstage = "loop"
    /\ table_i > Len(tables)
    /\ IF sheets = <<>>
       THEN pstage' = "failed" /\ UNCHANGED sheets
       ELSE pstage' = "done" /\ sheets' = post_formatting(sheets, all_dfs)
    /\ UNCHANGED <<tables, table_i, all_dfs, tlog, exVars, trVars, uiVars>>

NextPipeline ==
    \/ ReadPdf
    \/ SkipEmptyTable
    \/ ProcessTable
    \/ CloseAndFormat
SpecPipeline == InitPipeline /\ [][NextPipeline]_vars
SpecPipelineAnyPage == InitPipelineAnyPage /\ [][NextPipeline]_vars

---------------------------------------------------------------------------
(* SpecTranslateDf: translate_df on one table, one call of translate_text  *)
(* after the other, in the order of DataFrame.applymap.                    *)

\* the table of the specification's example after split_merged_rows, and a
\* table whose cells all hold the same string
SameCellsDf ==
    [columns |-> <<IntToStr(0), IntToStr(1)>>,
     rows |-> << <<(<<"a">>), (<<"a">>)>>, <<(<<"a">>), (<<"a">>)>> >>]
SplitDfs == {split_merged_rows(strip_columns(ExampleRawDf)), SameCellsDf}

InitTranslateDf ==
    /\ new_df \in SplitDfs
    /\ translated = new_df
    /\ df = NoDf
    /\ stage = "cells"
    /\ text = <<>>
    /\ target_lang \in Langs
    /\ call = NoCall
    /\ UiIdle
    /\ PlIdle

\* the call of translate_text for the next cell; its result takes the
\* cell's place in the table that applymap returns
TranslateCell ==
    /\ stage = "cells"
    /\ Len(tlog) < Len(new_df.rows) * Len(new_df.columns)
    /\ LET order == applymap_order(Len(new_df.rows), Len(new_df.columns))
           i == order[Len(tlog) + 1][1]
           j == order[Len(tlog) + 1][2]
       IN  \E o \in Outcomes :
               LET e == log_entry(0, i, j, new_df.rows[i][j], target_lang, o)
               IN  /\ tlog' = Append(tlog, e)
                   /\ translated' = [translated EXCEPT !.rows[i][j] = e.ret]
    /\ UNCHANGED <<df, new_df, stage, trVars, uiVars, plVars>>

\* applymap returns once the function has been applied to every cell
ReturnTranslated ==
    /\ stage = "cells"
    /\ Len(tlog) = Len(new_df.rows) * Len(new_df.columns)
    /\ stage' = "returned"
    /\ UNCHANGED <<df, new_df, translated, trVars, uiVars, plVars, tlog>>

NextTranslateDf == TranslateCell \/ ReturnTranslated
SpecTranslateDf == InitTranslateDf /\ [][NextTranslateDf]_vars

---------------------------------------------------------------------------
(* Vocabulary of the properties of split_merged_rows: segments are told    *)
(* by the positions of the line breaks, independently of Split.            *)
Breaks(s) == {k \in 1..Len(s) : s[k] = NL}
SegCount(s) == Cardinality(Breaks(s)) + 1

\* the position of the n-th line break of s; 0 before the first segment and
\* Len(s) + 1 after the last
BreakAt(s, n) ==
    IF n = 0 THEN 0
    ELSE IF n = SegCount(s) THEN Len(s) + 1
    ELSE CHOOSE k \in Breaks(s) :
             Cardinality({m \in Breaks(s) : m < k}) = n - 1

\* segment i (0-based) of s
Segment(s, i) == SubSeq(s, BreakAt(s, i) + 1, BreakAt(s, i + 1) - 1)

RowHasBreak(row) == \E j \in 1..Len(row) : Breaks(row[j]) # {}

\* N: the largest segment count over the cells of the row
MaxSegs(row) ==
    CHOOSE n \in {SegCount(row[j]) : j \in 1..Len(row)} :
        \A j \in 1..Len(row) : SegCount(row[j]) <= n

SubRows(row) == IF RowHasBreak(row) THEN MaxSegs(row) ELSE 1

\* the number of output rows that come from the rows before row r
RECURSIVE Offset(_, _)
Offset(rows, r) ==
    IF r = 1 THEN 0 ELSE Offset(rows, r - 1) + SubRows(rows[r - 1])

\* the output rows that come from input row r
Group(r) == SubSeq(new_df.rows, Offset(df.rows, r) + 1,
                   Offset(df.rows, r) + SubRows(df.rows[r]))

\* C1: a row with a line break in some cell yields exactly N sub-rows, N the
\* largest segment count of its cells; sub-row i holds in column j segment i
\* of cell j if it exists and the empty string otherwise; the row
\* ["X", "A\nB"] yields ["X", "A"] and ["", "B"].
C1_SubRowsHoldSegments ==
    stage = "split" =>
        /\ Len(new_df.rows) = Offset(df.rows, Len(df.rows) + 1)
        /\ \A r \in 1..Len(df.rows) :
              RowHasBreak(df.rows[r]) =>
                  LET row == df.rows[r]
                      g == Group(r)
                  IN  /\ Len(g) = MaxSegs(row)
                      /\ \A i \in 0..(MaxSegs(row) - 1) :
                            /\ Len(g[i + 1]) = Len(row)
                            /\ \A j \in 1..Len(row) :
                                  g[i + 1][j] = IF i < SegCount(row[j])
                                                THEN Segment(row[j], i)
                                                ELSE <<>>
        /\ df = ExampleDf =>
              new_df.rows = << <<(<<"X">>), (<<"A">>)>>, <<(<<>>), (<<"B">>)>> >>

\* a row was expanded in which one cell has a single segment and another
\* has several
C1_Witness ==
    /\ stage = "split"
    /\ \E r \in 1..Len(df.rows) :
          /\ MaxSegs(df.rows[r]) >= 2
          /\ \E j \in 1..Len(df.rows[r]) :
                /\ SegCount(df.rows[r][j]) = 1
                /\ df.rows[r][j] # <<>>

\* C2: every row returned by split_merged_rows, and every row of the grid
\* translate_df returns on it, has as many columns as the source table,
\* under the same labels in the same order; translate_df keeps every cell
\* at its position.
C2_ColumnCountConstant ==
    /\ stage \in {"split", "translated"} =>
          /\ new_df.columns = df.columns
          /\ \A i \in 1..Len(new_df.rows) :
                Len(new_df.rows[i]) = Len(df.columns)
    /\ stage = "translated" =>
          /\ translated.columns = df.columns
          /\ Len(translated.rows) = Len(new_df.rows)
          /\ \A i \in 1..Len(translated.rows) :
                /\ Len(translated.rows[i]) = Len(df.columns)
                /\ \A j \in 1..Len(translated.rows[i]) :
                      \/ translated.rows[i][j] \in ProviderResults
                      \/ /\ translated.rows[i][j] # <<>>
                         /\ \E a, b \in 0..Len(new_df.rows[i][j]) :
                               translated.rows[i][j] =
                                   SubSeq(new_df.rows[i][j], a + 1, b)
                      \/ /\ translated.rows[i][j] = <<>>
                         /\ \A k \in 1..Len(new_df.rows[i][j]) :
                               new_df.rows[i][j][k] \in Whitespace

\* a table of two columns whose expansion added a row went through both
C2_Witness ==
    /\ stage = "translated"
    /\ Len(df.columns) = 2
    /\ Len(translated.rows) > Len(df.rows)

\* C3: a row in which no cell has a line break yields exactly one row, equal
\* to it; the rows that come from input row r follow those of the rows
\* before r, and equal input rows yield equal output rows.
C3_PlainRowsUnchangedInOrder ==
    stage = "split" =>
        /\ Len(new_df.rows) = Offset(df.rows, Len(df.rows) + 1)
        /\ \A r \in 1..Len(df.rows) :
              ~RowHasBreak(df.rows[r]) => Group(r) = <<df.rows[r]>>
        /\ \A r, q \in 1..Len(df.rows) :
              df.rows[r] = df.rows[q] => Group(r) = Group(q)

\* a plain row came out unchanged after the sub-rows of an expanded row
C3_Witness ==
    /\ stage = "split"
    /\ Len(df.rows) = 2
    /\ RowHasBreak(df.rows[1])
    /\ ~RowHasBreak(df.rows[2])
    /\ df.rows[2] # <<>>
    /\ new_df.rows[Len(new_df.rows)] = df.rows[2]

---------------------------------------------------------------------------
(* Properties of translate_text.                                           *)
DetectCalled == \E k \in 1..Len(call.calls) : call.calls[k] = "detect"
ProviderCalled == \E k \in 1..Len(call.calls) : call.calls[k] = "translate"
TrimmedEmpty(s) == \A k \in 1..Len(s) : s[k] \in Whitespace

\* C4: if language identification raises, or the translation provider
\* raises, translate_text returns the input value unchanged.
C4_FailureReturnsOriginal ==
    /\ call.done
    /\ \/ DetectCalled /\ call.det = Raises
       \/ ProviderCalled /\ call.prov.raises
    => call.ret = text

\* C5: if language identification returns the target language,
\* translate_text returns the text unchanged and the provider is not called.
C5_SameLanguageReturnsText ==
    call.done /\ DetectCalled /\ call.det = target_lang
    => call.ret = text /\ ~ProviderCalled

\* C6: on a value whose trimmed text is empty translate_text calls neither
\* language identification nor the provider, and on "" it returns "".
C6_EmptyTextNoCalls ==
    call.done /\ TrimmedEmpty(text) =>
        /\ call.calls = <<>>
        /\ text = <<>> => call.ret = <<>>

\* translate_text returned on a whitespace-only value while the services
\* would both have raised
C6_Witness ==
    /\ call.done
    /\ text = <<SP, NL>>
    /\ call.det = Raises
    /\ call.prov.raises

---------------------------------------------------------------------------
(* Properties of the upload / confirmation script.                         *)

\* C7: a rerun enters the processing block only if a document is present
\* and either translation is off and the user has clicked Extract Without
\* Translation, or translation is on and the user has clicked Confirm
\* Language Selection on the language that is used; the click is one made
\* since the last processing that ran to its end.
C7_PipelineOnlyAfterExplicitSignal ==
    invoked =>
        /\ new_file # NoFile
        /\ \/ ~enable_translation /\ "proceed" \in given
           \/ /\ enable_translation
              /\ "confirm" \in given
              /\ confirm_selection \in LangNames
              /\ used_lang = lang_name_to_code[confirm_selection]

\* the processing block was entered with translation on, in a rerun that a
\* change of the selectbox caused after an earlier run had raised
C7_Witness ==
    /\ invoked
    /\ enable_translation
    /\ event = "select"
    /\ used_lang = "fr"

\* C8: after the rerun caused by supplying a document through the uploader,
\* confirmed, run_without_translation and processing_complete are all false.
C8_UploadResetsConfirmation ==
    event = "upload" =>
        /\ ~confirmed
        /\ ~run_without_translation
        /\ ~processing_complete

---------------------------------------------------------------------------
(* Properties of the processing loop.                                      *)
NonEmptyTables == {k \in 1..Len(tables) : Len(tables[k].df.rows) > 0}

\* the t-th table is the k-th of those with data rows
IsKthNonEmpty(t, k) ==
    /\ t \in NonEmptyTables
    /\ Cardinality({u \in NonEmptyTables : u < t}) = k - 1

\* C9: the finished workbook has exactly one sheet per table with data
\* rows and none for a table without; the k-th sheet holds the k-th such
\* table: its page in the name, its labels in the first row and below it as
\* many rows as the table's rows expand to.
C9_OneSheetPerNonEmptyTable ==
    pstage = "done" =>
        /\ Len(sheets) = Cardinality(NonEmptyTables)
        /\ \A k \in 1..Len(sheets) :
              \E t \in NonEmptyTables :
                  /\ IsKthNonEmpty(t, k)
                  /\ SubSeq(sheets[k].name, 1, 5 + Len(tables[t].page))
                        = <<"P", "a", "g", "e", "_">>
                             \o [m \in 1..Len(tables[t].page) |->
                                    Digit[tables[t].page[m] + 1]]
                  /\ Len(sheets[k].rows[1]) = Len(tables[t].df.columns)
                  /\ Len(sheets[k].rows)
                        = 1 + Offset(tables[t].df.rows, Len(tables[t].df.rows) + 1)

\* a finished workbook of one sheet, named for the second table, after an
\* empty first table
C9_Witness ==
    /\ pstage = "done"
    /\ Len(tables) = 2
    /\ Len(tables[1].df.rows) = 0
    /\ Len(tables[2].df.rows) = 2
    /\ Len(sheets) = 1
    /\ sheets[1].name[Len(sheets[1].name)] = "2"

\* Page_<page>_Table_<index>, spelt out
FullName(page, n) ==
    <<"P", "a", "g", "e", "_">> \o [k \in 1..Len(page) |-> Digit[page[k] + 1]]
        \o <<"_", "T", "a", "b", "l", "e", "_">> \o IntToStr(n)

\* the tables with data rows that the loop has passed, in order
RECURSIVE Written(_)
Written(n) ==
    IF n = 0 THEN <<>>
    ELSE IF Len(tables[n].df.rows) > 0 THEN Append(Written(n - 1), n)
    ELSE Written(n - 1)

\* C10: every sheet name in the workbook and every name collected for
\* post_formatting has at most 31 characters, and the name of a table whose
\* Page_<page>_Table_<index> has at most 31 characters is exactly that.
C10_SheetNamesAtMost31 ==
    pstage \in {"loop", "done"} =>
        LET w == Written(table_i - 1)
        IN  /\ \A k \in 1..Len(sheets) : Len(sheets[k].name) <= 31
            /\ Len(all_dfs) = Len(w)
            /\ \A m \in 1..Len(w) :
                  LET full == FullName(tables[w[m]].page, w[m])
                  IN  /\ Len(all_dfs[m]) <= 31
                      /\ \E k \in 1..Len(sheets) : sheets[k].name = all_dfs[m]
                      /\ Len(full) <= 31 => all_dfs[m] = full

\* a finished workbook whose sheet is named by the first 31 characters of
\* a longer Page_<page>_Table_<index>
C10_Witness ==
    /\ pstage = "done"
    /\ \E t \in NonEmptyTables :
          /\ Len(FullName(tables[t].page, t)) > 31
          /\ Len(sheets) = 1
          /\ sheets[1].name = SubSeq(FullName(tables[t].page, t), 1, 31)
          /\ all_dfs = <<sheets[1].name>>

---------------------------------------------------------------------------
(* Failures, the external calls and the cells that reach the workbook.     *)

\* camelot.read_pdf raised: the run ended before the loop
AdapterRaised == pstage = "failed" /\ table_i = 0

\* the calls of translate_text in which detect() or the provider failed
FailedCalls == {k \in 1..Len(tlog) : tlog[k].failed}

\* C11: a run that failed has written no sheet and offers no workbook, and
\* it failed in the extraction: the adapter raised, or no table with data
\* rows was found; no failed detect() or provider call is in it. A run in
\* which such a call failed on some cell goes on: the table of that cell
\* gets its sheet, and the run ends with the workbook.
C11_OnlyExtractionFailuresAbort ==
    /\ pstage = "failed" =>
          /\ sheets = <<>>
          /\ all_dfs = <<>>
          /\ AdapterRaised \/ NonEmptyTables = {}
          /\ FailedCalls = {}
    /\ \A k \in FailedCalls :
          /\ pstage \in {"loop", "done"}
          /\ table_i > tlog[k].table
          /\ Len(sheets) >= Cardinality({t \in NonEmptyTables : t <= tlog[k].table})
    /\ pstage = "done" => Len(sheets) = Cardinality(NonEmptyTables)

\* a finished run with a workbook, in which detect() failed on a cell and
\* the provider on another
C11_Witness ==
    /\ pstage = "done"
    /\ sheets # <<>>
    /\ \E k \in FailedCalls : tlog[k].calls = <<"detect">>
    /\ \E k \in FailedCalls : tlog[k].calls = <<"detect", "translate">>

\* the finished run on the one-page document whose only table is the 2x2
\* table with "A\nB" at row 0, column 1
ExampleRun ==
    /\ pstage = "done"
    /\ tables = <<[page |-> <<1>>, df |-> ExampleRawDf]>>

ExampleSheetName ==
    <<"P", "a", "g", "e", "_", "1", "_", "T", "a", "b", "l", "e", "_", "1">>

\* C12 as stated: the example document gives one sheet Page_1_Table_1 of 3
\* rows in all, the header and two data rows, the second data row having
\* the empty string in column 0.
C12_ExampleSheetHasThreeRows ==
    ExampleRun =>
        /\ Len(sheets) = 1
        /\ sheets[1].name = ExampleSheetName
        /\ Len(sheets[1].rows) = 3
        /\ sheets[1].rows[3][1] = <<>>

\* C12, amended: the example document gives one sheet Page_1_Table_1 of 4
\* rows in all: the row of the column labels 0 and 1, the two rows that
\* row 0 expands to, the second of them with the empty string in column
\* 0, and the row that row 1 gives; no index column is written.
C12_ExampleSheetHasFourRows ==
    ExampleRun =>
        /\ Len(sheets) = 1
        /\ sheets[1].name = ExampleSheetName
        /\ Len(sheets[1].rows) = 4
        /\ \A r \in 1..4 : Len(sheets[1].rows[r]) = 2
        /\ sheets[1].rows[1] = << <<"0">>, <<"1">> >>
        /\ sheets[1].rows[3][1] = <<>>
        /\ ~enable_translation =>
              /\ sheets[1].rows[2] = << <<"X">>, <<"A">> >>
              /\ sheets[1].rows[3] = << <<>>, <<"B">> >>
              /\ sheets[1].rows[4] = << <<"C">>, <<"D">> >>

\* the example document, processed to its end without translation
C12_Witness ==
    /\ ExampleRun
    /\ ~enable_translation
    /\ Len(sheets) = 1
    /\ Len(sheets[1].rows) = 4
    /\ sheets[1].rows[3] = << <<>>, <<"B">> >>

\* what row expansion makes of cell j of a row at sub-row i (0-based)
ExpandedCell(row, i, j) ==
    IF RowHasBreak(row)
    THEN IF i < SegCount(row[j]) THEN Segment(row[j], i) ELSE <<>>
    ELSE row[j]

\* C13: while translation is disabled no call of translate_text is made, so
\* neither detect() nor the provider is invoked for any cell, and every
\* data cell of every sheet written is exactly the segment that row
\* expansion made of the adapter's cell.
C13_DisabledTranslationLeavesCells ==
    (~enable_translation /\ pstage \in {"loop", "done"}) =>
        LET w == Written(table_i - 1)
        IN  /\ tlog = <<>>
            /\ Len(sheets) = Len(w)
            /\ \A m \in 1..Len(w) :
                  LET rows == tables[w[m]].df.rows
                  IN  \A r \in 1..Len(rows) :
                      \A i \in 0..(SubRows(rows[r]) - 1) :
                      \A j \in 1..Len(rows[r]) :
                          sheets[m].rows[1 + Offset(rows, r) + i + 1][j]
                              = ExpandedCell(rows[r], i, j)

\* a finished run without translation whose workbook holds a cell with its
\* leading space, and a cell that row expansion filled with the empty
\* string
C13_Witness ==
    /\ ~enable_translation
    /\ pstage = "done"
    /\ tlog = <<>>
    /\ Len(sheets) = 2
    /\ \E k \in 1..2 : sheets[k].rows[2][1] = <<SP, "a">>
    /\ \E k \in 1..2 : Len(sheets[k].rows) = 4 /\ sheets[k].rows[3][1] = <<>>

\* C14: no data cell handed to the serializer, after row expansion and the
\* translation if it is enabled, contains a line break, whatever the
\* adapter's table and whatever the provider does.
C14_NoLineBreakReachesSerializer ==
    pstage \in {"loop", "done"} =>
        \A k \in 1..Len(sheets) :
        \A r \in 2..Len(sheets[k].rows) :
        \A c \in 1..Len(sheets[k].rows[r]) :
            Breaks(sheets[k].rows[r][c]) = {}

\* C15: in the workbook that post_formatting has gone through, every cell
\* of every sheet is wrap-text and every column of every sheet has the one
\* fixed width, and going through post_formatting again leaves that
\* workbook as it is.
C15_PostFormattingTotalIdempotent ==
    pstage = "done" =>
        /\ \A k \in 1..Len(sheets) :
              /\ Len(sheets[k].wrap) = Len(sheets[k].rows)
              /\ \A r \in 1..Len(sheets[k].rows) :
                    /\ Len(sheets[k].wrap[r]) = Len(sheets[k].rows[r])
                    /\ \A c \in 1..Len(sheets[k].rows[r]) : sheets[k].wrap[r][c]
              /\ Len(sheets[k].width) = Len(sheets[k].rows[1])
              /\ \A c \in 1..Len(sheets[k].width) :
                    sheets[k].width[c] = ColumnWidth
        /\ post_formatting(sheets, all_dfs) = sheets

\* a formatted workbook of two sheets of different shapes
C15_Witness ==
    /\ pstage = "done"
    /\ Len(sheets) = 2
    /\ Len(sheets[1].rows) = 4 /\ Len(sheets[1].width) = 2
    /\ Len(sheets[2].rows) = 2 /\ Len(sheets[2].width) = 1
    /\ \A k \in 1..2 : sheets[k].wrap[2][1] /\ sheets[k].width[1] = ColumnWidth

---------------------------------------------------------------------------
(* The segments of empty and of blank cells.                               *)

\* C16 as stated: in a row that is split, every cell yields at least one
\* segment, and a cell that is empty or holds only whitespace yields
\* exactly one segment, the empty string, so that it gives the empty string
\* at every sub-row position.
C16_BlankCellYieldsOneEmptySegment ==
    stage = "split" =>
        \A r \in 1..Len(df.rows) :
            RowHasBreak(df.rows[r]) =>
                \A j \in 1..Len(df.rows[r]) :
                    LET cell == df.rows[r][j]
                        g == Group(r)
                    IN  /\ Len(Split(cell)) >= 1
                        /\ TrimmedEmpty(cell) =>
                              /\ Split(cell) = << <<>> >>
                              /\ \A i \in 1..Len(g) : g[i][j] = <<>>

\* C16, amended: in a row that is split, every cell yields at least one
\* segment; an empty cell yields exactly one segment, the empty string, and
\* gives the empty string at every sub-row position; a cell of whitespace
\* without a line break yields exactly one segment, the cell as it is,
\* which it gives at the first sub-row position, and the empty string at
\* the others.
C16_EmptyCellYieldsOneEmptySegment ==
    stage = "split" =>
        \A r \in 1..Len(df.rows) :
            RowHasBreak(df.rows[r]) =>
                \A j \in 1..Len(df.rows[r]) :
                    LET cell == df.rows[r][j]
                        g == Group(r)
                    IN  /\ Len(Split(cell)) >= 1
                        /\ Len(g) >= 1
                        /\ cell = <<>> =>
                              /\ Split(cell) = << <<>> >>
                              /\ \A i \in 1..Len(g) : g[i][j] = <<>>
                        /\ (TrimmedEmpty(cell) /\ Breaks(cell) = {}) =>
                              /\ Split(cell) = <<cell>>
                              /\ g[1][j] = cell
                              /\ \A i \in 2..Len(g) : g[i][j] = <<>>

\* a row split in two whose first cell is one space: the space is in the
\* first sub-row and the empty string in the second
C16_Witness ==
    /\ stage = "split"
    /\ df.rows[1] = << <<SP>>, <<NL>> >>
    /\ Group(1) = << << <<SP>>, <<>> >>, << <<>>, <<>> >> >>

---------------------------------------------------------------------------
(* Properties of translate_df.                                             *)

Cells == (1..Len(new_df.rows)) \X (1..Len(new_df.columns))
PosOf(k) == <<tlog[k].row, tlog[k].col>>

\* p comes before q when the cells are read row after row, left to right
BeforeByRows(p, q) == p[1] < q[1] \/ (p[1] = q[1] /\ p[2] < q[2])
\* p comes before q when the cells are read column after column, downwards
BeforeByColumns(p, q) == p[2] < q[2] \/ (p[2] = q[2] /\ p[1] < q[1])

\* what holds of the calls whatever their order: each cell is the subject
\* of at most one call and, once translate_df has returned, of exactly one;
\* the result of a call is at the cell's position and the cells not yet
\* visited are as they were; a call for a cell that is not blank starts by
\* identifying the language, also when the same string was seen before
CallsOncePerCellInPlace ==
    /\ \A k \in 1..Len(tlog) : PosOf(k) \in Cells
    /\ \A k, m \in 1..Len(tlog) : PosOf(k) = PosOf(m) => k = m
    /\ stage = "returned" => {PosOf(k) : k \in 1..Len(tlog)} = Cells
    /\ \A k \in 1..Len(tlog) :
          /\ translated.rows[tlog[k].row][tlog[k].col] = tlog[k].ret
          /\ ~TrimmedEmpty(new_df.rows[tlog[k].row][tlog[k].col])
                => (tlog[k].calls # <<>> /\ tlog[k].calls[1] = "detect")
    /\ \A p \in Cells \ {PosOf(k) : k \in 1..Len(tlog)} :
          translated.rows[p[1]][p[2]] = new_df.rows[p[1]][p[2]]

\* C17 as stated: translate_df calls translate_text exactly once per cell,
\* going through the cells row after row, each row from left to right,
\* and puts each result at the cell's position; equal strings in different
\* cells are identified and translated each on its own.
C17_OncePerCellByRows ==
    stage \in {"cells", "returned"} =>
        /\ CallsOncePerCellInPlace
        /\ \A k \in 1..Len(tlog) :
              {p \in Cells : BeforeByRows(p, PosOf(k))}
                  = {PosOf(m) : m \in 1..(k - 1)}

\* C17, amended: translate_df calls translate_text exactly once per cell,
\* going through the cells column after column, each column from the top
\* down, and puts each result at the cell's position; equal strings in
\* different cells are identified and translated each on its own.
C17_OncePerCellByColumns ==
    stage \in {"cells", "returned"} =>
        /\ CallsOncePerCellInPlace
        /\ \A k \in 1..Len(tlog) :
              {p \in Cells : BeforeByColumns(p, PosOf(k))}
                  = {PosOf(m) : m \in 1..(k - 1)}

\* translate_df has returned from a table whose cells hold the same string:
\* the second call was for the cell below the first, each cell had its own
\* detect() call, and two of them got different results
C17_Witness ==
    /\ stage = "returned"
    /\ new_df = SameCellsDf
    /\ Len(tlog) = 4
    /\ PosOf(2) = <<2, 1>>
    /\ \A k \in 1..4 : tlog[k].calls[1] = "detect"
    /\ translated.rows[1][1] # translated.rows[1][2]

---------------------------------------------------------------------------
(* Properties of the reruns after a click.                                 *)

\* C18: a click on Confirm or on Extract Without Translation authorises at
\* most one run of the processing block: the block runs only in the rerun
\* that such a click causes, so between two of its runs there is a click,
\* also after a run that failed, and no rerun caused by the checkbox, the
\* selectbox, the download button, the uploader or the removal of the file
\* runs it again.
C18_OneInvocationPerClick ==
    invoked => event \in {"confirm", "proceed"}

\* C19: when the processing block runs with translation enabled, the
\* language it uses is the code of the selectbox value at the last click on
\* Confirm, whatever the selectbox shows since, and that click was made
\* after the document now in the uploader was supplied.
C19_LanguageFromFreshConfirmation ==
    (invoked /\ enable_translation) =>
        /\ confirm_selection \in LangNames
        /\ used_lang = lang_name_to_code[confirm_selection]
        /\ confirm_since_upload

====
